---- MODULE Spec2Model ----
(***************************************************************************)
(* Model of the transcript parser (scripts/whatsapp_parser.py) and of the  *)
(* language classifier (scripts/ai_analysis.py).                           *)
(*                                                                         *)
(* Strings are modelled as sequences of tokens.  A token is either one     *)
(* whitespace character or a maximal run of non-whitespace characters, so  *)
(* strip(), the `:\s(.+)` tail of the header pattern, substring tests on   *)
(* words and the URL/emoji clean-up are computed on the sequence.          *)
(***************************************************************************)
EXTENDS Integers, Sequences, FiniteSets, TLC

VARIABLES
    input,            \* content.split('\n'): the lines of the transcript
    pos,              \* index of the line the for-loop is about to read
    pc,               \* "loop" | "done" | "raised" | "idle"
    timestamp,        \* the local variable `timestamp`: Unbound or a datetime
    messages,         \* the list `messages`
    system_messages,  \* the list `system_messages`
    df,               \* returned message frame (rows in order)
    system_df,        \* returned system-event frame (rows in order)
    text,             \* argument of detect_language
    language,         \* its return value ("pending" before the call)
    detected,         \* what langdetect.detect answered ("not_called" if never called)
    vader,            \* the module global `vader`: "loaded" or "None"
    arabic_analyzer,  \* the module global `arabic_analyzer`: "loaded" or "None"
    answers,          \* what each scorer does if analyze_sentiment calls it
    sentiment,        \* return value of analyze_sentiment
    invoked           \* the scorers analyze_sentiment called

vars == <<input, pos, pc, timestamp, messages, system_messages, df, system_df,
          text, language, detected, vader, arabic_analyzer, answers, sentiment,
          invoked>>

parserVars == <<input, pos, pc, timestamp, messages, system_messages, df, system_df>>
langVars == <<text, language, detected>>
sentVars == <<vader, arabic_analyzer, answers, sentiment, invoked>>

(***************************************************************************)
(* Bounds                                                                  *)
(***************************************************************************)
\* longest transcript, in lines
MaxLines == 3
\* longest text handed to detect_language on its own, in tokens
MaxTokens == 3

(***************************************************************************)
(* Tokens                                                                  *)
(***************************************************************************)
\* "AR:..." stands for a word written in the Arabic block U+0600..U+06FF,
\* "EMOJI:grin" for the single code point U+1F600.
WhitespaceTokens == {" "}
ArabicBlockTokens == {"AR:salam", "AR:ahlan.wa"}
UrlLikeTokens == {"www.x.io", "AR:ahlan.wa"}
EmojiTokens == {"EMOJI:grin"}
FrancoPatternTokens == {"7aga"}
DigitTokens == {"7aga", "555"}
LetterTokens == {"7aga", "hello", "good", "hi", "world", "www.x.io",
                 "Alice", "Bob", "joined"}
ArabicContextTokens == {"hello", "Alice"}
EventWordTokens == {"joined", "left", "added"}

IsSpace(tok) == tok \in WhitespaceTokens

\* number of characters of a token
TokLen(tok) ==
    CASE tok \in WhitespaceTokens -> 1
      [] tok = "EMOJI:grin" -> 1
      [] tok = "hi" -> 2
      [] tok = "555" -> 3
      [] tok = "Bob" -> 3
      [] tok = "7aga" -> 4
      [] tok = "good" -> 4
      [] tok = "world" -> 5
      [] tok = "hello" -> 5
      [] tok = "Alice" -> 5
      [] tok = "AR:salam" -> 4
      [] tok = "joined" -> 6
      [] OTHER -> 8

RECURSIVE CharLen(_)
CharLen(s) == IF s = <<>> THEN 0 ELSE TokLen(Head(s)) + CharLen(Tail(s))

RECURSIVE LStrip(_)
LStrip(s) == IF s # <<>> /\ IsSpace(Head(s)) THEN LStrip(Tail(s)) ELSE s

RECURSIVE RStrip(_)
RStrip(s) ==
    IF s # <<>> /\ IsSpace(s[Len(s)]) THEN RStrip(SubSeq(s, 1, Len(s) - 1)) ELSE s

\* str.strip()
Strip(s) == RStrip(LStrip(s))

\* `"added" in message or "left" in message or "joined" in message`
IsSystemMessage(message) ==
    \E i \in 1..Len(message) : message[i] \in EventWordTokens

(***************************************************************************)
(* Lines and the header pattern                                            *)
(***************************************************************************)
\* A line is blank (empty or whitespace), plain (no date-time prefix), or
\* stamped: a date-time prefix in one of three bracket styles followed by
\* `sender:after` (colon = TRUE) or by `after` alone (colon = FALSE).
\*   br = "none"  :  D/M/Y, H:MM[:SS][ AM|PM] - rest
\*   br = "comma" :  [D/M/Y, H:MM:SS] rest
\*   br = "space" :  [D/M/Y H:MM:SS] rest
NoStamp == [a |-> 0, b |-> 0, y |-> 0, yd |-> 0, h |-> 0, mi |-> 0,
            hasSec |-> FALSE, s |-> 0, ampm |-> ""]

Stamp(a, b, y, yd, h, mi, hasSec, s, ampm) ==
    [a |-> a, b |-> b, y |-> y, yd |-> yd, h |-> h, mi |-> mi,
     hasSec |-> hasSec, s |-> s, ampm |-> ampm]

BlankLine == [kind |-> "blank", br |-> "none", stamp |-> NoStamp,
              colon |-> FALSE, sender |-> <<>>, after |-> <<>>]

PlainLine(toks) == [kind |-> "plain", br |-> "none", stamp |-> NoStamp,
                    colon |-> FALSE, sender |-> <<>>, after |-> toks]

Header(br, stamp, sender, after) ==
    [kind |-> "stamped", br |-> br, stamp |-> stamp,
     colon |-> TRUE, sender |-> sender, after |-> after]

EventHeader(br, stamp, after) ==
    [kind |-> "stamped", br |-> br, stamp |-> stamp,
     colon |-> FALSE, sender |-> <<>>, after |-> after]

\* `not line.strip()`
IsBlank(line) == line.kind = "blank"

\* re.match(pattern, line): the prefix is unbracketed, then `\s-\s`, a
\* non-empty `[^:]+`, a colon, one whitespace and at least one more character.
PatternMatches(line) ==
    /\ line.kind = "stamped"
    /\ line.br = "none"
    /\ line.colon
    /\ Len(line.sender) >= 1
    /\ Len(line.after) >= 2
    /\ IsSpace(line.after[1])

\* match.groups(): group 2 and group 3 (group 1 is line.stamp)
GroupSender(line) == line.sender
GroupMessage(line) == Tail(line.after)

(***************************************************************************)
(* datetime.strptime over the six formats                                  *)
(***************************************************************************)
Unbound == <<>>

\* the list of formats of the inner for-loop, in order
Formats ==
    << [dayFirst |-> TRUE,  yd |-> 2, sec |-> FALSE],   \* '%d/%m/%y, %H:%M'
       [dayFirst |-> TRUE,  yd |-> 4, sec |-> FALSE],   \* '%d/%m/%Y, %H:%M'
       [dayFirst |-> FALSE, yd |-> 2, sec |-> FALSE],   \* '%m/%d/%y, %H:%M'
       [dayFirst |-> FALSE, yd |-> 4, sec |-> FALSE],   \* '%m/%d/%Y, %H:%M'
       [dayFirst |-> TRUE,  yd |-> 2, sec |-> TRUE],    \* '%d/%m/%y, %H:%M:%S'
       [dayFirst |-> TRUE,  yd |-> 4, sec |-> TRUE] >>  \* '%d/%m/%Y, %H:%M:%S'

Year(st) == IF st.yd = 2 THEN (IF st.y < 69 THEN 2000 + st.y ELSE 1900 + st.y)
            ELSE st.y

IsLeap(yr) == (yr % 4 = 0 /\ yr % 100 # 0) \/ yr % 400 = 0

DaysIn(mo, yr) ==
    IF mo = 2 THEN (IF IsLeap(yr) THEN 29 ELSE 28)
    ELSE IF mo \in {4, 6, 9, 11} THEN 30 ELSE 31

Day(st, fmt) == IF fmt.dayFirst THEN st.a ELSE st.b
Month(st, fmt) == IF fmt.dayFirst THEN st.b ELSE st.a

\* strptime(timestamp_str, fmt) does not raise ValueError
StrptimeOk(st, fmt) ==
    /\ st.ampm = ""
    /\ st.yd = fmt.yd
    /\ st.hasSec = fmt.sec
    /\ Year(st) >= 1
    /\ Month(st, fmt) \in 1..12
    /\ Day(st, fmt) \in 1..DaysIn(Month(st, fmt), Year(st))
    /\ st.h \in 0..23
    /\ st.mi \in 0..59
    /\ st.s \in 0..59

\* the datetime strptime returns
StrptimeValue(st, fmt) ==
    <<Year(st), Month(st, fmt), Day(st, fmt), st.h, st.mi,
      IF st.hasSec THEN st.s ELSE 0>>

\* the inner for-loop: the first format that parses assigns `timestamp` and
\* breaks; when none parses the variable keeps the value it had.
RECURSIVE TryFormats(_, _, _)
TryFormats(st, i, old) ==
    IF i > Len(Formats) THEN old
    ELSE IF StrptimeOk(st, Formats[i]) THEN StrptimeValue(st, Formats[i])
    ELSE TryFormats(st, i + 1, old)

\* t1 <= t2 on datetimes (year, month, day, hour, minute, second)
RECURSIVE TsLeqFrom(_, _, _)
TsLeqFrom(t1, t2, i) ==
    IF i > Len(t1) THEN TRUE
    ELSE IF t1[i] < t2[i] THEN TRUE
    ELSE IF t1[i] > t2[i] THEN FALSE
    ELSE TsLeqFrom(t1, t2, i + 1)

TsLeq(t1, t2) == TsLeqFrom(t1, t2, 1)

(***************************************************************************)
(* is_franco_arabic and detect_language                                    *)
(***************************************************************************)
\* a Python value handed to detect_language: a str (its tokens) or not a str
StrValue(toks) == [isStr |-> TRUE, toks |-> toks]
NotStrValue == [isStr |-> FALSE, toks |-> <<>>]

\* re.sub(r'http\S+|www\S+|\S+\.\S+', '', text)
RemoveUrls(s) == SelectSeq(s, LAMBDA tok : tok \notin UrlLikeTokens)

\* re.sub of the four emoji ranges
RemoveEmoji(s) == SelectSeq(s, LAMBDA tok : tok \notin EmojiTokens)

\* the two clean-up substitutions, in order
CleanText(s) == RemoveEmoji(RemoveUrls(s))

\* any('؀' <= char <= 'ۿ' for char in text)
HasArabicScript(s) == \E i \in 1..Len(s) : s[i] \in ArabicBlockTokens

\* is_franco_arabic on a str: one of the sixteen patterns is found, or the
\* text has a digit, a Latin letter and one of the context words
IsFrancoArabic(s) ==
    \/ \E i \in 1..Len(s) : s[i] \in FrancoPatternTokens
    \/ /\ \E i \in 1..Len(s) : s[i] \in DigitTokens
       /\ \E i \in 1..Len(s) : s[i] \in LetterTokens
       /\ \E i \in 1..Len(s) : s[i] \in ArabicContextTokens

\* what langdetect.detect can do: return a language code or raise
SimilarCodes == {"sv", "da", "no", "nl", "de", "af"}
DetectorOutcomes == {"ar", "en", "sv", "de", "fr", "LangDetectException", "Exception"}
DetectorRaises(outcome) == outcome \in {"LangDetectException", "Exception"}

Result(lang, det) == [language |-> lang, detected |-> det]

\* the mapping of the detector's answer
MapDetected(cleaned, outcome) ==
    IF DetectorRaises(outcome) THEN Result(outcome, outcome)
    ELSE IF outcome = "ar" THEN Result("arabic", outcome)
    ELSE IF outcome = "en" THEN Result("english", outcome)
    ELSE IF outcome \in SimilarCodes
         THEN Result(IF IsFrancoArabic(cleaned) THEN "franco" ELSE "english", outcome)
    ELSE Result("english", outcome)

\* a cascade that asks the Franco heuristic before the script test
Cascade_FrancoFirst(toks, outcome) ==
    LET cleaned == CleanText(toks) IN
    IF IsFrancoArabic(cleaned) THEN Result("franco", "not_called")
    ELSE IF HasArabicScript(cleaned) THEN Result("arabic", "not_called")
    ELSE MapDetected(cleaned, outcome)

\* the body of the try block: script test, Franco heuristic, detector
Cascade(toks, outcome) ==
    LET cleaned == CleanText(toks) IN
    IF HasArabicScript(cleaned) THEN Result("arabic", "not_called")
    ELSE IF IsFrancoArabic(cleaned) THEN Result("franco", "not_called")
    ELSE MapDetected(cleaned, outcome)

\* handlers that let the exception through
HandleExceptions_Propagate(r) == r

\* `except LangDetectException` and `except Exception`: both return 'unknown'
HandleExceptions(r) ==
    IF DetectorRaises(r.language) THEN Result("unknown", r.detected) ELSE r

\* `not isinstance(text, str) or len(text.strip()) < 3`
InputGuard(v) == ~v.isStr \/ CharLen(Strip(v.toks)) < 3

\* detect_language(text), with `outcome` what the detector does if it is called
DetectLanguage(v, outcome) ==
    IF InputGuard(v) THEN Result("unknown", "not_called")
    ELSE HandleExceptions(Cascade(v.toks, outcome))

(***************************************************************************)
(* analyze_sentiment                                                       *)
(***************************************************************************)
\* Scores are whole numbers here: a scorer's sample answers are the extremes
\* of its range.
Vector(c, p, n, g, t) ==
    [compound |-> c, positive |-> p, neutral |-> n, negative |-> g,
     textblob_polarity |-> t]

\* {'compound': 0, 'positive': 0, 'neutral': 1, 'negative': 0, 'textblob_polarity': 0}
NeutralVector == Vector(0, 0, 1, 0, 0)

\* the value `sentiment` holds before any call
NoVector == Vector(0, 0, 0, 0, 0)

\* what vader.polarity_scores can do: raise, or return its four scores
VaderOutcomes ==
    { [raises |-> TRUE,  scores |-> [compound |-> 0, pos |-> 0, neu |-> 0, neg |-> 0]],
      [raises |-> FALSE, scores |-> [compound |-> 1, pos |-> 1, neu |-> 0, neg |-> 0]] }

\* what TextBlob(text).sentiment.polarity can do
TextBlobOutcomes ==
    { [raises |-> TRUE, polarity |-> 0], [raises |-> FALSE, polarity |-> 1] }

\* what arabic_analyzer.predict can do: raise, or return a label
ArabicOutcomes ==
    { [raises |-> TRUE,  prediction |-> ""],
      [raises |-> FALSE, prediction |-> "positive"],
      [raises |-> FALSE, prediction |-> "negative"],
      [raises |-> FALSE, prediction |-> "neutral"],
      [raises |-> FALSE, prediction |-> "mixed"] }

Globals == {"loaded", "None"}

\* the value `answers` holds where no scorer is ever asked
NoAnswers ==
    [vo |-> [raises |-> TRUE, scores |-> [compound |-> 0, pos |-> 0, neu |-> 0, neg |-> 0]],
     to |-> [raises |-> TRUE, polarity |-> 0],
     ao |-> [raises |-> TRUE, prediction |-> ""]]

\* a run in which every scorer answers
ScoringAnswers ==
    [vo |-> [raises |-> FALSE, scores |-> [compound |-> 1, pos |-> 1, neu |-> 0, neg |-> 0]],
     to |-> [raises |-> FALSE, polarity |-> 1],
     ao |-> [raises |-> FALSE, prediction |-> "negative"]]

Outcome(raised, vector, called) ==
    [raised |-> raised, vector |-> vector, invoked |-> called]

\* the try block of analyze_sentiment_english
EnglishBody(env) ==
    LET callsVader == env.vader # "None"
        vaderFailed == callsVader /\ env.vo.raises
        vader_scores == IF callsVader THEN env.vo.scores
                        ELSE [compound |-> 0, pos |-> 0, neu |-> 0, neg |-> 0]
        callsBlob == ~vaderFailed
        blobFailed == callsBlob /\ env.to.raises
    IN Outcome(vaderFailed \/ blobFailed,
               Vector(vader_scores.compound, vader_scores.pos, vader_scores.neu,
                      vader_scores.neg, env.to.polarity),
               (IF callsVader THEN {"vader"} ELSE {})
                   \cup (IF callsBlob THEN {"textblob"} ELSE {}))

\* an except clause that returns all zeros
AnalyzeSentimentEnglish_ZeroOnError(env) ==
    LET r == EnglishBody(env)
    IN IF r.raised THEN Outcome(FALSE, NoVector, r.invoked) ELSE r

\* analyze_sentiment_english: the try block, and `except Exception` returning
\* the neutral vector
AnalyzeSentimentEnglish(env) ==
    LET r == EnglishBody(env)
    IN IF r.raised THEN Outcome(FALSE, NeutralVector, r.invoked) ELSE r

Max(a, b) == IF a >= b THEN a ELSE b
Min(a, b) == IF a <= b THEN a ELSE b
Abs(a) == IF a < 0 THEN 0 - a ELSE a

\* sentiment_map.get(prediction, 0)
SentimentMapGet(prediction) ==
    IF prediction = "positive" THEN 1
    ELSE IF prediction = "negative" THEN 0 - 1
    ELSE 0

\* analyze_sentiment_arabic
AnalyzeSentimentArabic(env) ==
    IF env.arabic_analyzer = "None" THEN Outcome(FALSE, NeutralVector, {})
    ELSE IF env.ao.raises THEN Outcome(FALSE, NeutralVector, {"arabic_analyzer"})
    ELSE LET score == SentimentMapGet(env.ao.prediction)
         IN Outcome(FALSE,
                    Vector(score, Max(0, score), IF score = 0 THEN 1 ELSE 0,
                           Abs(Min(0, score)), score),
                    {"arabic_analyzer"})

\* a guard that measures the text without trimming it
SentimentInputGuard_NoStrip(v) == ~v.isStr \/ CharLen(v.toks) < 3

\* `not isinstance(text, str) or len(text.strip()) < 3`
SentimentInputGuard(v) == ~v.isStr \/ CharLen(Strip(v.toks)) < 3

\* the dispatch on `language` inside the try block of analyze_sentiment
Dispatch(lang, env) ==
    IF lang = "english" THEN AnalyzeSentimentEnglish(env)
    ELSE IF lang \in {"arabic", "franco"} THEN AnalyzeSentimentArabic(env)
    ELSE AnalyzeSentimentEnglish(env)

\* analyze_sentiment(text, language)
AnalyzeSentiment(v, lang, env) ==
    IF SentimentInputGuard(v) THEN Outcome(FALSE, NeutralVector, {})
    ELSE LET r == Dispatch(lang, env)
         IN IF r.raised THEN Outcome(FALSE, NeutralVector, r.invoked) ELSE r

(***************************************************************************)
(* DataFrame.sort_values and enrich_dataframe                              *)
(***************************************************************************)
IsSortedByTimestamp(rows) ==
    \A i \in 1..(Len(rows) - 1) : TsLeq(rows[i].timestamp, rows[i + 1].timestamp)

Perms(n) == {p \in [1..n -> 1..n] : \A i, j \in 1..n : i # j => p[i] # p[j]}

\* a sort_values that returns the rows in the order it got them
SortValues_Unsorted(rows) == {rows}

\* sort_values('timestamp').reset_index(drop=True) with the default
\* kind='quicksort', which is not stable: every ascending arrangement of the
\* rows is a possible result
SortValues(rows) ==
    {r \in {[i \in 1..Len(rows) |-> rows[p[i]]] : p \in Perms(Len(rows))} :
        IsSortedByTimestamp(r)}

\* the values detect_language can return for a message, over everything the
\* detector may do when it is asked
PossibleLanguages(message) ==
    {DetectLanguage(StrValue(message), outcome).language : outcome \in DetectorOutcomes}

\* a row of the frame with the six columns enrich_dataframe adds
EnrichedRow(row, lang, v) ==
    [timestamp |-> row.timestamp, sender |-> row.sender, message |-> row.message,
     language |-> lang,
     sentiment_compound |-> v.compound, sentiment_positive |-> v.positive,
     sentiment_neutral |-> v.neutral, sentiment_negative |-> v.negative,
     sentiment_textblob |-> v.textblob_polarity]

\* enrich_dataframe: adds the language column and the five sentiment columns
\* row by row and keeps the order; the set of frames it can return, with
\* `env` the two globals and the scorers' answers of this run
RECURSIVE EnrichDataframe(_, _)
EnrichDataframe(rows, env) ==
    IF rows = <<>> THEN {<<>>}
    ELSE {<<EnrichedRow(Head(rows), lang,
                        AnalyzeSentiment(StrValue(Head(rows).message), lang, env).vector)>>
              \o rest :
          lang \in PossibleLanguages(Head(rows).message),
          rest \in EnrichDataframe(Tail(rows), env)}

(***************************************************************************)
(* Transcripts                                                             *)
(***************************************************************************)
T1000 == Stamp(1, 2, 23, 2, 10, 0, FALSE, 0, "")         \* 1/2/23, 10:00
T1001 == Stamp(1, 2, 23, 2, 10, 1, FALSE, 0, "")         \* 1/2/23, 10:01
TJan13 == Stamp(1, 13, 23, 2, 10, 0, FALSE, 0, "")       \* 1/13/23, 10:00
TSec == Stamp(1, 2, 2023, 4, 10, 0, TRUE, 30, "")        \* 1/2/2023, 10:00:30
TAm == Stamp(1, 2, 23, 2, 10, 0, FALSE, 0, "AM")         \* 1/2/23, 10:00 AM
TBad == Stamp(31, 31, 23, 2, 10, 0, FALSE, 0, "")        \* 31/31/23, 10:00

Lines ==
    { BlankLine,
      PlainLine(<<"world">>),
      Header("none", T1001, <<"Alice">>, <<" ", "hello">>),
      Header("none", T1000, <<"Bob">>, <<" ", "hi">>),
      Header("none", T1000, <<"Alice">>, <<" ", "hi">>),
      Header("none", TJan13, <<"Bob">>, <<" ", "7aga">>),
      Header("none", TSec, <<"Alice">>, <<" ", "hi">>),
      Header("none", TAm, <<"Alice">>, <<" ", "hello">>),
      Header("none", TBad, <<"Bob">>, <<" ", "hi">>),
      Header("comma", TSec, <<"Alice">>, <<" ", "hi">>),
      Header("space", TSec, <<"Alice">>, <<" ", "hi">>),
      EventHeader("none", T1000, <<"Bob", " ", "joined">>),
      Header("none", T1001, <<"Alice">>, <<" ", "Bob", " ", "joined">>),
      Header("none", T1000, <<"Bob">>, <<" ", "left">>),
      Header("none", T1000, <<" ">>, <<" ", "hi">>),
      Header("none", T1000, <<"Alice">>, <<" ">>),
      Header("none", T1000, <<"Alice", " ">>, <<" ", " ", "hi", " ">>) }

SeqsUpTo(S, n) == UNION {[1..k -> S] : k \in 0..n}

Transcripts == SeqsUpTo(Lines, MaxLines)

\* texts for detect_language: tokens separated by single spaces
LangTokens == {"hi", "hello", "good", "7aga", "555", "AR:salam", "AR:ahlan.wa",
               "www.x.io", "EMOJI:grin"}

RECURSIVE Join(_)
Join(ws) == IF Len(ws) <= 1 THEN ws ELSE <<Head(ws), " ">> \o Join(Tail(ws))

LangInputs ==
    {NotStrValue} \cup {StrValue(Join(ws)) : ws \in SeqsUpTo(LangTokens, MaxTokens)}
        \cup {StrValue(<<" ", "hi", " ">>), StrValue(<<" ", " ", " ">>)}

(***************************************************************************)
(* parse_whatsapp_chat                                                     *)
(***************************************************************************)
Init ==
    /\ input \in Transcripts
    /\ pos = 1
    /\ pc = "loop"
    /\ timestamp = Unbound
    /\ messages = <<>>
    /\ system_messages = <<>>
    /\ df = <<>>
    /\ system_df = <<>>
    /\ text = NotStrValue
    /\ language = "idle"
    /\ detected = "not_called"
    /\ vader = "loaded"
    /\ arabic_analyzer = "loaded"
    /\ answers = ScoringAnswers
    /\ sentiment = NoVector
    /\ invoked = {}

InLoop == pc = "loop" /\ pos <= Len(input)

\* `if not line.strip(): continue`
SkipBlank ==
    /\ InLoop
    /\ IsBlank(input[pos])
    /\ pos' = pos + 1
    /\ UNCHANGED <<input, pc, timestamp, messages, system_messages, df, system_df>>
    /\ UNCHANGED langVars
    /\ UNCHANGED sentVars

\* `if match:` is false: nothing is done with the line
NoMatch ==
    /\ InLoop
    /\ ~IsBlank(input[pos])
    /\ ~PatternMatches(input[pos])
    /\ pos' = pos + 1
    /\ UNCHANGED <<input, pc, timestamp, messages, system_messages, df, system_df>>
    /\ UNCHANGED langVars
    /\ UNCHANGED sentVars

\* a matched line whose text has none of the event words
AppendMessage ==
    /\ InLoop
    /\ PatternMatches(input[pos])
    /\ LET line == input[pos]
           ts == TryFormats(line.stamp, 1, timestamp)
       IN /\ ts # Unbound
          /\ ~IsSystemMessage(GroupMessage(line))
          /\ timestamp' = ts
          /\ messages' = Append(messages,
                [timestamp |-> ts,
                 sender |-> Strip(GroupSender(line)),
                 message |-> GroupMessage(line)])
    /\ pos' = pos + 1
    /\ UNCHANGED <<input, pc, system_messages, df, system_df>>
    /\ UNCHANGED langVars
    /\ UNCHANGED sentVars

\* a matched line whose text has "added", "left" or "joined"
AppendSystemMessage ==
    /\ InLoop
    /\ PatternMatches(input[pos])
    /\ LET line == input[pos]
           ts == TryFormats(line.stamp, 1, timestamp)
       IN /\ ts # Unbound
          /\ IsSystemMessage(GroupMessage(line))
          /\ timestamp' = ts
          /\ system_messages' = Append(system_messages,
                [timestamp |-> ts, event |-> GroupMessage(line)])
    /\ pos' = pos + 1
    /\ UNCHANGED <<input, pc, messages, df, system_df>>
    /\ UNCHANGED langVars
    /\ UNCHANGED sentVars

\* a matched line, no format parses and `timestamp` was never assigned: reading
\* it raises UnboundLocalError, which `except ValueError` does not catch
RaiseUnboundLocal ==
    /\ InLoop
    /\ PatternMatches(input[pos])
    /\ TryFormats(input[pos].stamp, 1, timestamp) = Unbound
    /\ pc' = "raised"
    /\ UNCHANGED <<input, pos, timestamp, messages, system_messages, df, system_df>>
    /\ UNCHANGED langVars
    /\ UNCHANGED sentVars

\* `if not messages: return` two empty frames
ReturnEmpty ==
    /\ pc = "loop"
    /\ pos > Len(input)
    /\ messages = <<>>
    /\ df' = <<>>
    /\ system_df' = <<>>
    /\ pc' = "done"
    /\ UNCHANGED <<input, pos, timestamp, messages, system_messages>>
    /\ UNCHANGED langVars
    /\ UNCHANGED sentVars

\* build both frames, sort each by timestamp, enrich the message frame
SortAndEnrich ==
    /\ pc = "loop"
    /\ pos > Len(input)
    /\ messages # <<>>
    /\ \E sorted \in SortValues(messages) :
          df' \in EnrichDataframe(sorted,
                    [vader |-> vader, arabic_analyzer |-> arabic_analyzer,
                     vo |-> answers.vo, to |-> answers.to, ao |-> answers.ao])
    /\ system_df' \in SortValues(system_messages)
    /\ pc' = "done"
    /\ UNCHANGED <<input, pos, timestamp, messages, system_messages>>
    /\ UNCHANGED langVars
    /\ UNCHANGED sentVars

Next ==
    \/ SkipBlank
    \/ NoMatch
    \/ AppendMessage
    \/ AppendSystemMessage
    \/ RaiseUnboundLocal
    \/ ReturnEmpty
    \/ SortAndEnrich

Spec == Init /\ [][Next]_vars

(***************************************************************************)
(* detect_language called on its own                                       *)
(***************************************************************************)
InitLang ==
    /\ input = <<>>
    /\ pos = 1
    /\ pc = "idle"
    /\ timestamp = Unbound
    /\ messages = <<>>
    /\ system_messages = <<>>
    /\ df = <<>>
    /\ system_df = <<>>
    /\ text \in LangInputs
    /\ language = "pending"
    /\ detected = "not_called"
    /\ vader = "None"
    /\ arabic_analyzer = "None"
    /\ answers = NoAnswers
    /\ sentiment = NoVector
    /\ invoked = {}

CallDetectLanguage ==
    /\ pc = "idle"
    /\ language = "pending"
    /\ \E outcome \in DetectorOutcomes :
          LET r == DetectLanguage(text, outcome)
          IN /\ language' = r.language
             /\ detected' = r.detected
    /\ UNCHANGED text
    /\ UNCHANGED parserVars
    /\ UNCHANGED sentVars

NextLang == CallDetectLanguage

SpecLang == InitLang /\ [][NextLang]_vars

(***************************************************************************)
(* analyze_sentiment called on its own                                     *)
(***************************************************************************)
SentInputs ==
    { NotStrValue,
      StrValue(<<>>),
      StrValue(<<"hi">>),
      StrValue(<<" ", "hi", " ">>),
      StrValue(<<"555">>),
      StrValue(<<"hello">>),
      StrValue(<<"good", " ", "hello">>),
      StrValue(<<"7aga">>),
      StrValue(<<"AR:salam">>) }

\* the labels detect_language returns and one value outside them
SentLanguages == {"arabic", "english", "franco", "unknown", "es"}

InitSent ==
    /\ input = <<>>
    /\ pos = 1
    /\ pc = "sentiment"
    /\ timestamp = Unbound
    /\ messages = <<>>
    /\ system_messages = <<>>
    /\ df = <<>>
    /\ system_df = <<>>
    /\ text \in SentInputs
    /\ language \in SentLanguages
    /\ detected = "not_called"
    /\ vader \in Globals
    /\ arabic_analyzer \in Globals
    /\ answers \in [vo : VaderOutcomes, to : TextBlobOutcomes, ao : ArabicOutcomes]
    /\ sentiment = NoVector
    /\ invoked = {}

CallAnalyzeSentiment ==
    /\ pc = "sentiment"
    /\ LET env == [vader |-> vader, arabic_analyzer |-> arabic_analyzer,
                   vo |-> answers.vo, to |-> answers.to, ao |-> answers.ao]
           r == AnalyzeSentiment(text, language, env)
       IN /\ pc' = IF r.raised THEN "sentiment_raised" ELSE "sentiment_done"
          /\ sentiment' = r.vector
          /\ invoked' = r.invoked
    /\ UNCHANGED <<input, pos, timestamp, messages, system_messages, df, system_df>>
    /\ UNCHANGED langVars
    /\ UNCHANGED <<vader, arabic_analyzer, answers>>

NextSent == CallAnalyzeSentiment

SpecSent == InitSent /\ [][NextSent]_vars

(***************************************************************************)
(* Properties of parse_whatsapp_chat                                       *)
(***************************************************************************)
Returned == pc = "done"

\* the line has a timestamp that one of the formats parses
TimestampParses(line) == TryFormats(line.stamp, 1, Unbound) # Unbound

\* a header line the parser is meant to turn into a Message
WellFormedMessage(line) ==
    /\ PatternMatches(line)
    /\ TimestampParses(line)
    /\ ~IsSystemMessage(GroupMessage(line))

\* a header line that matches the pattern with a timestamp no format parses
MalformedHeader(line) == PatternMatches(line) /\ ~TimestampParses(line)

\* the Message a well-formed header line stands for
MessageOf(line) ==
    [timestamp |-> TryFormats(line.stamp, 1, Unbound),
     sender |-> Strip(GroupSender(line)),
     message |-> GroupMessage(line)]

\* a row of the returned frame without the columns enrichment added
Core(row) == [timestamp |-> row.timestamp, sender |-> row.sender,
              message |-> row.message]

\* C1: in the returned Message frame and in the returned SystemEvent frame
\* every adjacent pair of rows is in ascending timestamp order.
C1_OutputAscending ==
    Returned =>
        /\ \A i \in 1..(Len(df) - 1) : TsLeq(df[i].timestamp, df[i + 1].timestamp)
        /\ \A i \in 1..(Len(system_df) - 1) :
              TsLeq(system_df[i].timestamp, system_df[i + 1].timestamp)

\* the parse returned a frame whose rows were read out of timestamp order
C1_Witness ==
    /\ Returned
    /\ Len(df) >= 2
    /\ \E i \in 1..(Len(messages) - 1) :
          ~TsLeq(messages[i].timestamp, messages[i + 1].timestamp)

\* C2: a line matching no header grammar that follows the header line of a
\* Message is appended to that Message's body after a line break.
C2_ContinuationAppended ==
    Returned =>
        \A i \in 1..(Len(input) - 1) :
            (WellFormedMessage(input[i]) /\ input[i + 1].kind = "plain") =>
                \E k \in 1..Len(df) :
                    /\ df[k].sender = MessageOf(input[i]).sender
                    /\ df[k].message =
                          GroupMessage(input[i]) \o <<"\n">> \o input[i + 1].after

\* C3: a line with a timestamp and a group-event text without a `Sender:`
\* part yields one SystemEvent carrying the whole text and no Message.
C3_GroupEventLine ==
    Returned =>
        \A i \in 1..Len(input) :
            ( /\ input[i].kind = "stamped"
              /\ input[i].br = "none"
              /\ ~input[i].colon
              /\ TimestampParses(input[i])
              /\ IsSystemMessage(input[i].after) ) =>
                /\ \E k \in 1..Len(system_df) : system_df[k].event = input[i].after
                /\ \A k \in 1..Len(df) : df[k].message # input[i].after

\* C4: one malformed header line between two well-formed messages yields
\* exactly the two well-formed Messages and no SystemEvent.
C4_MalformedLineDropped ==
    ( /\ Returned
      /\ Len(input) = 3
      /\ WellFormedMessage(input[1])
      /\ MalformedHeader(input[2])
      /\ WellFormedMessage(input[3]) ) =>
        /\ Len(df) = 2
        /\ {Core(df[1]), Core(df[2])} = {MessageOf(input[1]), MessageOf(input[3])}
        /\ system_df = <<>>

\* C5: the parse never ends by raising, wherever a malformed line stands.
C5_NeverRaises == pc # "raised"

\* C6: every Message collected or returned has a timestamp and a non-empty
\* sender.
C6_TimestampAndSender ==
    /\ \A k \in 1..Len(messages) :
          messages[k].timestamp # Unbound /\ messages[k].sender # <<>>
    /\ \A k \in 1..Len(df) :
          df[k].timestamp # Unbound /\ df[k].sender # <<>>

\* the four header shapes: 12-hour clock with AM/PM and a dash, 24-hour clock
\* with seconds and a dash, and the two bracketed forms with seconds
IsFourShapeHeader(line) ==
    /\ line.kind = "stamped"
    /\ line.colon
    /\ Strip(line.sender) # <<>>
    /\ Len(line.after) >= 2
    /\ IsSpace(line.after[1])
    /\ ~IsSystemMessage(Tail(line.after))
    /\ line.stamp.b \in 1..12
    /\ line.stamp.a \in 1..DaysIn(line.stamp.b, Year(line.stamp))
    /\ \/ line.br = "none" /\ ~line.stamp.hasSec /\ line.stamp.ampm \in {"AM", "PM"}
          /\ line.stamp.h \in 1..12
       \/ line.br = "none" /\ line.stamp.hasSec /\ line.stamp.ampm = ""
       \/ line.br = "comma" /\ line.stamp.hasSec /\ line.stamp.ampm = ""
       \/ line.br = "space" /\ line.stamp.hasSec /\ line.stamp.ampm = ""

\* the point in time a D/M/Y header states
StatedTimestamp(st) ==
    <<Year(st), st.b, st.a,
      IF st.ampm = "PM" THEN (st.h % 12) + 12
      ELSE IF st.ampm = "AM" THEN st.h % 12 ELSE st.h,
      st.mi,
      IF st.hasSec THEN st.s ELSE 0>>

\* C7: a line in any of the four header shapes becomes a record with the
\* timestamp, sender and text the line states.
C7_FourHeaderShapes ==
    Returned =>
        \A i \in 1..Len(input) :
            IsFourShapeHeader(input[i]) =>
                \E k \in 1..Len(df) :
                    /\ df[k].timestamp = StatedTimestamp(input[i].stamp)
                    /\ df[k].sender = Strip(input[i].sender)
                    /\ df[k].message = Tail(input[i].after)

\* C8: Messages with equal timestamps are returned in the order in which they
\* were read.
C8_StableOrder ==
    (Returned /\ messages # <<>>) =>
        \E p \in Perms(Len(messages)) :
            /\ \A i \in 1..Len(df) : Core(df[i]) = messages[p[i]]
            /\ \A i, j \in 1..Len(df) :
                  (i < j /\ df[i].timestamp = df[j].timestamp) => p[i] < p[j]

\* a line the pattern matches whose text has one of the event words
IsSystemLine(line) == PatternMatches(line) /\ IsSystemMessage(GroupMessage(line))

\* C15: the returned SystemEvent frame has exactly one entry for each matched
\* line whose text has "joined", "left" or "added", and no such line is a
\* Message; also when no ordinary Message was parsed.
C15_OneEventPerSystemLine ==
    Returned =>
        /\ Len(system_df) = Cardinality({i \in 1..Len(input) : IsSystemLine(input[i])})
        /\ \A i \in 1..Len(input) :
              IsSystemLine(input[i]) =>
                  /\ \E k \in 1..Len(system_df) :
                        system_df[k].event = GroupMessage(input[i])
                  /\ \A k \in 1..Len(df) : df[k].message # GroupMessage(input[i])

\* C16: a header line with a sender and a body that is empty after trimming
\* (nothing, or only whitespace, after the colon) yields a Message of that
\* sender.
C16_EmptyBodyKept ==
    Returned =>
        \A i \in 1..Len(input) :
            ( /\ input[i].kind = "stamped"
              /\ input[i].br = "none"
              /\ input[i].colon
              /\ Strip(input[i].sender) # <<>>
              /\ TimestampParses(input[i])
              /\ Strip(input[i].after) = <<>> ) =>
                \E k \in 1..Len(df) :
                    /\ df[k].sender = Strip(input[i].sender)
                    /\ Strip(df[k].message) = <<>>

\* C17: in every record collected or returned the sender and the message
\* text have no leading or trailing whitespace.
C17_FieldsTrimmed ==
    /\ \A k \in 1..Len(messages) :
          /\ Strip(messages[k].sender) = messages[k].sender
          /\ Strip(messages[k].message) = messages[k].message
    /\ \A k \in 1..Len(df) :
          /\ Strip(df[k].sender) = df[k].sender
          /\ Strip(df[k].message) = df[k].message

(***************************************************************************)
(* Properties of detect_language                                           *)
(***************************************************************************)
Classified == language \notin {"pending", "idle"}

\* C9: for text that passes the input guard, Arabic script in the cleaned
\* text gives 'arabic' whatever the Franco heuristic says; otherwise a Franco
\* match gives 'franco' whatever the detector would answer; the detector is
\* called only when both rules fail.
C9_CascadePrecedence ==
    (Classified /\ ~InputGuard(text)) =>
        LET cleaned == CleanText(text.toks) IN
        /\ HasArabicScript(cleaned) =>
              (language = "arabic" /\ detected = "not_called")
        /\ (~HasArabicScript(cleaned) /\ IsFrancoArabic(cleaned)) =>
              (language = "franco" /\ detected = "not_called")
        /\ detected # "not_called" =>
              (~HasArabicScript(cleaned) /\ ~IsFrancoArabic(cleaned))

\* a text with Arabic script on which the Franco heuristic matches too was
\* classified
C9_Witness ==
    /\ Classified
    /\ ~InputGuard(text)
    /\ HasArabicScript(CleanText(text.toks))
    /\ IsFrancoArabic(CleanText(text.toks))
    /\ language = "arabic"

\* C10: detect_language returns one of its four labels, and 'unknown' when
\* the input is not text, is shorter than 3 trimmed characters, or the
\* detector raised.
C10_UnknownNeverRaises ==
    Classified =>
        /\ language \in {"arabic", "english", "franco", "unknown"}
        /\ (InputGuard(text) \/ DetectorRaises(detected)) => language = "unknown"

\* the detector was called and raised something other than LangDetectException
C10_Witness ==
    /\ Classified
    /\ ~InputGuard(text)
    /\ detected = "Exception"
    /\ language = "unknown"

\* len(text.split()): the words of a text
WordCount(toks) == Len(SelectSeq(toks, LAMBDA tok : ~IsSpace(tok)))

\* C14: when the detector answers one of sv, da, no, nl, de, af on a text
\* with Latin letters the result is 'franco' if the Franco heuristic matches
\* or the text has at most 3 words, and every answer other than these, 'ar'
\* and 'en' gives 'english'.
C14_SimilarCodesShortText ==
    (Classified /\ ~InputGuard(text) /\ detected # "not_called"
        /\ ~DetectorRaises(detected)
        /\ \E i \in 1..Len(CleanText(text.toks)) :
              CleanText(text.toks)[i] \in LetterTokens) =>
        LET cleaned == CleanText(text.toks) IN
        /\ (detected \in SimilarCodes
               /\ (IsFrancoArabic(cleaned) \/ WordCount(cleaned) <= 3)) =>
              language = "franco"
        /\ detected \notin (SimilarCodes \cup {"ar", "en"}) => language = "english"

(***************************************************************************)
(* Properties of analyze_sentiment                                         *)
(***************************************************************************)
SentimentCalled == pc \in {"sentiment_done", "sentiment_raised"}

\* the text is not a string or has fewer than 3 characters after trimming
ShortOrNotText == ~text.isStr \/ CharLen(Strip(text.toks)) < 3

\* the language value sends the text to the Arabic classifier
ArabicPath == language \in {"arabic", "franco"}

\* a scorer that was called raised, or the Arabic classifier was needed and
\* is not loaded
ScoringFailed ==
    \/ "vader" \in invoked /\ answers.vo.raises
    \/ "textblob" \in invoked /\ answers.to.raises
    \/ "arabic_analyzer" \in invoked /\ answers.ao.raises
    \/ ~ShortOrNotText /\ ArabicPath /\ arabic_analyzer = "None"

\* C11: for every language value, a text that is not a string or is shorter
\* than 3 trimmed characters gets exactly the neutral vector and no scorer is
\* called.
C11_GuardGivesNeutral ==
    (SentimentCalled /\ ShortOrNotText) =>
        /\ pc = "sentiment_done"
        /\ sentiment = NeutralVector
        /\ invoked = {}

\* a two-character text padded with spaces went through analyze_sentiment
\* with the Arabic classifier loaded and the language 'arabic'
C11_Witness ==
    /\ pc = "sentiment_done"
    /\ text = StrValue(<<" ", "hi", " ">>)
    /\ language = "arabic"
    /\ arabic_analyzer = "loaded"
    /\ sentiment = NeutralVector
    /\ invoked = {}

\* C12: analyze_sentiment never raises, and when a scorer it called raised or
\* the Arabic classifier is not loaded the result is the neutral vector.
C12_FailuresGiveNeutral ==
    /\ pc # "sentiment_raised"
    /\ (pc = "sentiment_done" /\ ScoringFailed) => sentiment = NeutralVector

\* the lexicon scorer was called on the English path and raised
C12_Witness ==
    /\ pc = "sentiment_done"
    /\ ~ArabicPath
    /\ "vader" \in invoked
    /\ answers.vo.raises
    /\ sentiment = NeutralVector

\* C13: on the English path with the lexicon scorer unavailable the four
\* lexicon fields are 0, 0, 1, 0 and the secondary scorer is still called and
\* its polarity returned.
C13_LexiconUnavailable ==
    ( /\ pc = "sentiment_done"
      /\ ~ShortOrNotText
      /\ ~ArabicPath
      /\ vader = "None"
      /\ ~answers.to.raises ) =>
        /\ "textblob" \in invoked
        /\ sentiment = Vector(0, 0, 1, 0, answers.to.polarity)

====
